---- MODULE Spec2Model ----
(***************************************************************************)
(* Model of src/main.py: the /whatsapp webhook of the Bubashvabe relay.    *)
(*                                                                         *)
(* A text is a sequence of symbols.  A symbol is a one-character string;   *)
(* a character outside ASCII is written by its code point ("U+043F"), and  *)
(* a string literal of the program whose characters no operation inspects  *)
(* is kept as one symbol.                                                  *)
(***************************************************************************)
EXTENDS Integers, Sequences, FiniteSets, TLC

VARIABLES
    MAX_HISTORY,                \* main.py:25  int(os.getenv("MAX_HISTORY", "10"))
    REQUIRE_TWILIO_SIGNATURE,   \* main.py:28  boolean flag
    TWILIO_AUTH_TOKEN,          \* main.py:19  "" when unset
    GOOGLE_API_KEY,             \* main.py:18  "" when unset
    _memory,                    \* main.py:33  dict: conversation key -> list of turns
    pc,                         \* per handler coroutine: "idle" | "await_form" | "return"
    last                        \* the request of the coroutine that is returning

vars == <<MAX_HISTORY, REQUIRE_TWILIO_SIGNATURE, TWILIO_AUTH_TOKEN,
          GOOGLE_API_KEY, _memory, pc, last>>

config == <<MAX_HISTORY, REQUIRE_TWILIO_SIGNATURE, TWILIO_AUTH_TOKEN, GOOGLE_API_KEY>>

(***************************************************************************)
(* Bounds of the model.                                                    *)
(***************************************************************************)
\* Largest configured MAX_HISTORY explored (the values are -1 .. MaxCap).
MaxCap == 2
\* Number of handler coroutines that can be in flight together.
NumHandlers == 2
\* Longest history handed to _trim_history on its own.
MaxLen == 3
\* Longest text, built from GuardAlphabet, handed to the content guard on its own.
MaxText == 5

Handlers == 1..NumHandlers
CapValues == -1..MaxCap

(***************************************************************************)
(* Characters and str.strip().                                             *)
(***************************************************************************)
Whitespace == {" ", "\t", "\n", "\r"}

RECURSIVE LStrip(_)
LStrip(s) == IF s # <<>> /\ Head(s) \in Whitespace THEN LStrip(Tail(s)) ELSE s

RECURSIVE RStrip(_)
RStrip(s) ==
    IF s # <<>> /\ s[Len(s)] \in Whitespace THEN RStrip(SubSeq(s, 1, Len(s) - 1)) ELSE s

\* str.strip(): whitespace removed at both ends, the inside kept.
Strip(s) == RStrip(LStrip(s))

(***************************************************************************)
(* SENSITIVE_PATTERN = re.compile(r"\b(cvv|password|2fa|code|pin|...)\b",  *)
(* re.IGNORECASE), main.py:36.  The two Cyrillic markers are written by    *)
(* code points.                                                            *)
(***************************************************************************)
AsciiLower == {"a","b","c","d","e","f","g","h","i","j","k","l","m",
               "n","o","p","q","r","s","t","u","v","w","x","y","z"}
AsciiUpper == {"A","B","C","D","E","F","G","H","I","J","K","L","M",
               "N","O","P","Q","R","S","T","U","V","W","X","Y","Z"}
Digits == {"0","1","2","3","4","5","6","7","8","9"}
\* Cyrillic small letters pe a er o el soft-sign ka de, and their capitals.
CyrLower == {"U+043F","U+0430","U+0440","U+043E","U+043B","U+044C","U+043A","U+0434"}
CyrUpper == {"U+041F","U+0410","U+0420","U+041E","U+041B","U+042C","U+041A","U+0414"}

\* \w of a str pattern: letters, digits and the underscore.
WordChars == AsciiLower \cup AsciiUpper \cup Digits \cup CyrLower \cup CyrUpper \cup {"_"}

IsWordChar(c) == c \in WordChars

\* Case folding of re.IGNORECASE on the letters above: capital |-> small.
Folding ==
    [c \in AsciiUpper \cup CyrUpper |->
        CASE c = "A" -> "a" [] c = "B" -> "b" [] c = "C" -> "c" [] c = "D" -> "d"
          [] c = "E" -> "e" [] c = "F" -> "f" [] c = "G" -> "g" [] c = "H" -> "h"
          [] c = "I" -> "i" [] c = "J" -> "j" [] c = "K" -> "k" [] c = "L" -> "l"
          [] c = "M" -> "m" [] c = "N" -> "n" [] c = "O" -> "o" [] c = "P" -> "p"
          [] c = "Q" -> "q" [] c = "R" -> "r" [] c = "S" -> "s" [] c = "T" -> "t"
          [] c = "U" -> "u" [] c = "V" -> "v" [] c = "W" -> "w" [] c = "X" -> "x"
          [] c = "Y" -> "y" [] c = "Z" -> "z"
          [] c = "U+041F" -> "U+043F" [] c = "U+0410" -> "U+0430"
          [] c = "U+0420" -> "U+0440" [] c = "U+041E" -> "U+043E"
          [] c = "U+041B" -> "U+043B" [] c = "U+042C" -> "U+044C"
          [] c = "U+041A" -> "U+043A" [] c = "U+0414" -> "U+0434"]

ToLower(c) == IF c \in DOMAIN Folding THEN Folding[c] ELSE c

Markers ==
    { <<"c","v","v">>,
      <<"p","a","s","s","w","o","r","d">>,
      <<"2","f","a">>,
      <<"c","o","d","e">>,
      <<"p","i","n">>,
      <<"U+043F","U+0430","U+0440","U+043E","U+043B","U+044C">>,
      <<"U+043A","U+043E","U+0434">> }

\* \b between s[p] and s[p+1] (p in 0..Len(s)): exactly one side is a word character.
WordBoundary(s, p) ==
    LET before == p >= 1 /\ IsWordChar(s[p])
        after  == p < Len(s) /\ IsWordChar(s[p + 1])
    IN  before # after

\* The marker m matches s at positions i .. i+Len(m)-1, ignoring case.
MarkerAt(s, m, i) ==
    /\ i + Len(m) - 1 <= Len(s)
    /\ \A j \in 1..Len(m) : ToLower(s[i + j - 1]) = m[j]

\* Mutant of SENSITIVE_PATTERN_search: re.IGNORECASE is missing.
SENSITIVE_PATTERN_search_case_sensitive(s) ==
    \E m \in Markers : \E i \in 1..Len(s) :
        /\ i + Len(m) - 1 <= Len(s)
        /\ \A j \in 1..Len(m) : s[i + j - 1] = m[j]
        /\ WordBoundary(s, i - 1)
        /\ WordBoundary(s, i + Len(m) - 1)

\* SENSITIVE_PATTERN.search(s) is not None.
SENSITIVE_PATTERN_search(s) ==
    \E m \in Markers : \E i \in 1..Len(s) :
        /\ MarkerAt(s, m, i)
        /\ WordBoundary(s, i - 1)
        /\ WordBoundary(s, i + Len(m) - 1)

(***************************************************************************)
(* Fixed reply texts.                                                      *)
(***************************************************************************)
\* main.py:37
FALLBACK_MESSAGE == <<"Moi mozgovye zhuki spyat (oshibka API), poprobuj pozzhe.">>
\* main.py:38
SAFETY_MESSAGE == <<"V celyah bezopasnosti ya ne obrabatyvayu soobshcheniya s parolyami ili kodami.">>
\* main.py:97
GREETING_MESSAGE == <<"Privet! Ya slushayu.">>
\* main.py:135
CONFIG_ERROR_MESSAGE == <<"Oshibka konfiguracii: Proverte GOOGLE_API_KEY.">>

(***************************************************************************)
(* dict.get and dict item assignment.                                      *)
(***************************************************************************)
Get(d, k, default) == IF k \in DOMAIN d THEN d[k] ELSE default

\* Mutant of SetItem: the value is assigned to every key of the dictionary.
SetItem_every_key(d, k, v) == [x \in DOMAIN d \cup {k} |-> v]

\* Mutant of SetItem: an empty value removes the key.
SetItem_drop_empty(d, k, v) ==
    IF v = <<>>
    THEN [x \in DOMAIN d \ {k} |-> d[x]]
    ELSE [x \in DOMAIN d \cup {k} |-> IF x = k THEN v ELSE d[x]]

SetItem(d, k, v) == [x \in DOMAIN d \cup {k} |-> IF x = k THEN v ELSE d[x]]

EmptyDict == [x \in {} |-> <<>>]

\* Mutant of _trim_history: the slice keeps one entry too many.
_trim_history_off_by_one(history, max_entries) ==
    IF max_entries <= 0
    THEN <<>>
    ELSE LET start == IF Len(history) - (max_entries + 1) > 0
                      THEN Len(history) - (max_entries + 1) ELSE 0
         IN  SubSeq(history, start + 1, Len(history))

\* Mutant of _trim_history: the test of max_entries <= 0 is missing, and
\* history[-n:] is evaluated for every n (the whole list for n = 0, the list
\* without its first -n entries for n < 0).
_trim_history_no_floor(history, max_entries) ==
    LET len   == Len(history)
        start == IF max_entries > 0
                 THEN (IF len - max_entries > 0 THEN len - max_entries ELSE 0)
                 ELSE (IF -max_entries < len THEN -max_entries ELSE len)
    IN  SubSeq(history, start + 1, len)

\* Mutant of _trim_history: a history over the maximum loses its oldest
\* entry only, history[1:].
_trim_history_pop_oldest(history, max_entries) ==
    IF max_entries <= 0
    THEN <<>>
    ELSE IF Len(history) > max_entries THEN Tail(history) ELSE history

\* Mutant of _trim_history: the slice keeps the oldest entries, history[:n].
_trim_history_keep_oldest(history, max_entries) ==
    IF max_entries <= 0
    THEN <<>>
    ELSE SubSeq(history, 1, IF Len(history) < max_entries THEN Len(history) ELSE max_entries)

(***************************************************************************)
(* _trim_history, main.py:47-51.  history[-n:] for n > 0 starts at index   *)
(* max(len - n, 0).                                                        *)
(***************************************************************************)
_trim_history(history, max_entries) ==
    IF max_entries <= 0
    THEN <<>>
    ELSE LET start == IF Len(history) - max_entries > 0
                      THEN Len(history) - max_entries ELSE 0
         IN  SubSeq(history, start + 1, Len(history))

\* The list passed to _trim_history after the call: `return []` and the
\* slice `history[-max_entries:]` build new lists, main.py:49-51.
_trim_history_argument(history, max_entries) == history

(***************************************************************************)
(* Turns, responses and the outcome of the remote-model call.              *)
(***************************************************************************)
\* {"role": role, "parts": [text]}, main.py:122 and :124.
Turn(role, text) == [role |-> role, parts |-> <<text>>]

\* _build_twiml, main.py:66-70: the message inside the MessagingResponse
\* envelope, media type application/xml, default status 200.
_build_twiml(message) ==
    [status_code |-> 200,
     media_type  |-> "application/xml",
     content     |-> <<"<Response><Message>">> \o message \o <<"</Message></Response>">>]

\* Response(content="Forbidden", status_code=403), main.py:93.
Forbidden == [status_code |-> 403, media_type |-> "", content |-> <<"Forbidden">>]

\* No response was built: an exception left the handler.
NoResponse == [status_code |-> 0, media_type |-> "", content |-> <<>>]

NoException == [type |-> "", message |-> <<>>]

\* The remote call returned a result whose .text is t.
Returned(t) == [raised |-> FALSE, text |-> t, exc |-> NoException]

\* The remote call (send_message or result.text) raised e.
Raised(e) == [raised |-> TRUE, text |-> <<>>, exc |-> e]

\* The adapter was not invoked.
NotCalled == [raised |-> FALSE, text |-> <<>>, exc |-> NoException]

\* Exception classes the client library raises; every one derives from Exception.
ExceptionClasses == {"DeadlineExceeded", "InvalidArgument", "NotFound", "ValueError"}

\* "API_KEY" in str(e), main.py:134: the message is a sequence of fragments.
MentionsApiKey(e) == \E k \in 1..Len(e.message) : e.message[k] = "API_KEY"

(***************************************************************************)
(* _validate_twilio_signature, main.py:54-63.  RequestValidator.validate   *)
(* is the platform's verifier: of the signatures a request can carry it    *)
(* accepts the genuine one.                                                *)
(***************************************************************************)
GenuineSignature == "Z2VudWluZQ=="
ForgedSignature == "Zm9yZ2Vk"
\* request.headers.get was not evaluated.
NotRead == "<not read>"

RequestValidator_validate(signature) == signature = GenuineSignature

\* Mutant of _validate_twilio_signature: an unconfigured secret lets the request in.
_validate_twilio_signature_fail_open(headers) ==
    LET signature == Get(headers, "X-Twilio-Signature", "")
    IN  IF TWILIO_AUTH_TOKEN = ""
        THEN [valid |-> TRUE, signature |-> signature, verifier_calls |-> 0]
        ELSE IF signature = ""
        THEN [valid |-> FALSE, signature |-> signature, verifier_calls |-> 0]
        ELSE [valid          |-> RequestValidator_validate(signature),
              signature      |-> signature,
              verifier_calls |-> 1]

\* Mutant of _validate_twilio_signature: the secret is not tested before the
\* verifier is built and asked.
_validate_twilio_signature_no_token_test(headers) ==
    LET signature == Get(headers, "X-Twilio-Signature", "")
    IN  IF signature = ""
        THEN [valid |-> FALSE, signature |-> signature, verifier_calls |-> 0]
        ELSE [valid          |-> RequestValidator_validate(signature),
              signature      |-> signature,
              verifier_calls |-> 1]

_validate_twilio_signature(headers) ==
    LET signature == Get(headers, "X-Twilio-Signature", "")
    IN  IF signature = "" \/ TWILIO_AUTH_TOKEN = ""
        THEN [valid |-> FALSE, signature |-> signature, verifier_calls |-> 0]
        ELSE [valid          |-> RequestValidator_validate(signature),
              signature      |-> signature,
              verifier_calls |-> 1]

(***************************************************************************)
(* whatsapp_webhook from its await to the try block, main.py:82-101.       *)
(***************************************************************************)
\* Mutant of ParseBody: the text is not stripped.
ParseBody_unstripped(form_data) == Get(form_data, "Body", <<>>)

\* body = form_data.get("Body", "").strip(), main.py:85.
ParseBody(form_data) == Strip(Get(form_data, "Body", <<>>))

\* Mutant of SignatureRequired: the flag is not consulted.
SignatureRequired_always == TRUE

\* if REQUIRE_TWILIO_SIGNATURE, main.py:90.
SignatureRequired == REQUIRE_TWILIO_SIGNATURE

\* Mutant of ContentGuard: re.match in place of re.search, the marker is
\* looked for at the start of the text only.
ContentGuard_match(body) ==
    \E m \in Markers :
        /\ body # <<>>
        /\ MarkerAt(body, m, 1)
        /\ WordBoundary(body, 0)
        /\ WordBoundary(body, Len(m))

\* if SENSITIVE_PATTERN.search(body), main.py:100.
ContentGuard(body) == SENSITIVE_PATTERN_search(body)

\* The parsed fields, the signature check and, when the request ends before
\* the try block, its response.
Gates(form, headers) ==
    LET form_data   == form
        from_number == Get(form_data, "From", "unknown")
        body        == ParseBody(form_data)
        check       == IF SignatureRequired
                       THEN _validate_twilio_signature(headers)
                       ELSE [valid |-> TRUE, signature |-> NotRead, verifier_calls |-> 0]
        early       == IF SignatureRequired /\ ~check.valid
                       THEN Forbidden
                       ELSE IF body = <<>>
                       THEN _build_twiml(GREETING_MESSAGE)
                       ELSE IF ContentGuard(body)
                       THEN _build_twiml(SAFETY_MESSAGE)
                       ELSE NoResponse
    IN  [from_number    |-> from_number,
         body           |-> body,
         signature      |-> check.signature,
         verifier_calls |-> check.verifier_calls,
         returned       |-> early # NoResponse,
         response       |-> early]

(***************************************************************************)
(* The try/except of whatsapp_webhook, main.py:104-137.                    *)
(***************************************************************************)
\* Mutant of IsException: the handler catches the API-key errors only.
IsException_api_errors_only(e) == e.type = "InvalidArgument"

\* except Exception, main.py:131.
IsException(e) == e.type \in ExceptionClasses

\* Mutant of Appended: the turns are appended to a list that does not hold
\* the stored history, as a read made before an earlier write would leave it.
Appended_stale_read(current_history, body, reply_text) ==
    <<Turn("user", body), Turn("model", reply_text)>>

\* Mutant of Appended: the reply is appended before the question.
Appended_reply_first(current_history, body, reply_text) ==
    Append(Append(current_history, Turn("model", reply_text)), Turn("user", body))

\* The two appends of main.py:122-124.
Appended(current_history, body, reply_text) ==
    Append(Append(current_history, Turn("user", body)), Turn("model", reply_text))

\* Mutant of MemoryAfterFailure: the question was saved before the call.
MemoryAfterFailure_question_saved(memory, from_number, body) ==
    SetItem(memory, from_number,
            _trim_history(Append(Get(memory, from_number, <<>>), Turn("user", body)),
                          MAX_HISTORY))

\* The except block assigns nothing to _memory, main.py:131-137.
MemoryAfterFailure(memory, from_number, body) == memory

\* Mutant of SendAttempts: a failed call is tried again.
SendAttempts_retry(outcome) == IF outcome.raised THEN 2 ELSE 1

\* chat.send_message(body) is called once, main.py:117.
SendAttempts(outcome) == 1

Exchange(memory, from_number, body, outcome) ==
    LET current_history == Get(memory, from_number, <<>>)
    IN  IF ~outcome.raised
        THEN LET reply_text == Strip(outcome.text)
             IN  [memory       |-> SetItem(memory, from_number,
                                     _trim_history(Appended(current_history, body, reply_text),
                                                   MAX_HISTORY)),
                  response     |-> _build_twiml(reply_text),
                  store_reads  |-> 1,
                  store_writes |-> 1,
                  remote_calls |-> SendAttempts(outcome),
                  propagated   |-> FALSE]
        ELSE IF IsException(outcome.exc)
        THEN [memory       |-> MemoryAfterFailure(memory, from_number, body),
              response     |-> IF MentionsApiKey(outcome.exc) \/ GOOGLE_API_KEY = ""
                               THEN _build_twiml(CONFIG_ERROR_MESSAGE)
                               ELSE _build_twiml(FALLBACK_MESSAGE),
              store_reads  |-> 1,
              store_writes |-> 0,
              remote_calls |-> SendAttempts(outcome),
              propagated   |-> FALSE]
        ELSE [memory       |-> MemoryAfterFailure(memory, from_number, body),
              response     |-> NoResponse,
              store_reads  |-> 1,
              store_writes |-> 0,
              remote_calls |-> SendAttempts(outcome),
              propagated   |-> TRUE]

(***************************************************************************)
(* Requests and remote outcomes explored.                                  *)
(***************************************************************************)
Hello == <<"h","e","l","l","o">>
HiThere == <<"h","i"," ","t","h","e","r","e">>

\* Body values: blank, a marker in capitals inside a padded text, plain, padded.
BodyValues ==
    { <<" ">>, <<"m","y"," ","P","I","N"," ">>, Hello, <<" ">> \o Hello \o <<"\n">> }

\* From values: an empty field and a phone number.
FromValues == { "", "+1555" }

FormWith(fields, from, body) ==
    [k \in fields |-> IF k = "From" THEN from ELSE body]

\* Form fields as the platform may send them; either field may be missing.
Forms ==
    { FormWith(fields, f, b) :
        fields \in SUBSET {"From", "Body"}, f \in FromValues, b \in BodyValues }

\* Request headers: no signature header, an empty one, a forged and the genuine one.
HeaderValues ==
    { EmptyDict } \cup
    { [k \in {"X-Twilio-Signature"} |-> v] : v \in {"", ForgedSignature, GenuineSignature} }

ReplyTexts == { HiThere, <<" ">> \o HiThere \o <<"\n">>, <<" ">> }

Exceptions ==
    { [type |-> "DeadlineExceeded", message |-> <<"504 Deadline Exceeded">>],
      [type |-> "InvalidArgument",  message |-> <<"400 API key not valid [reason: ", "API_KEY", "_INVALID]">>],
      [type |-> "NotFound",         message |-> <<"404 model is not found">>] }

Outcomes == { Returned(t) : t \in ReplyTexts } \cup { Raised(e) : e \in Exceptions }

(***************************************************************************)
(* State machine.                                                          *)
(***************************************************************************)
NoRequest ==
    [handled        |-> FALSE,
     form           |-> EmptyDict,
     signature      |-> NotRead,
     outcome        |-> NotCalled,
     response       |-> NoResponse,
     store_reads    |-> 0,
     store_writes   |-> 0,
     remote_calls   |-> 0,
     verifier_calls |-> 0,
     propagated     |-> FALSE]

Init ==
    /\ MAX_HISTORY \in CapValues
    /\ REQUIRE_TWILIO_SIGNATURE \in BOOLEAN
    /\ TWILIO_AUTH_TOKEN \in {"", "twilio-token"}
    /\ GOOGLE_API_KEY \in {"", "google-key"}
    /\ _memory = EmptyDict
    /\ pc = [i \in Handlers |-> "idle"]
    /\ last = NoRequest

\* The event loop runs one coroutine at a time: a coroutine that has resumed
\* runs to its return, and its response is handed over, before another
\* coroutine is started or resumed.
LoopIsFree == \A j \in Handlers : pc[j] # "return"

\* A request arrives: the coroutine starts and suspends in
\* `await request.form()`, main.py:79-81.
Start(i) ==
    /\ LoopIsFree
    /\ pc[i] = "idle"
    /\ pc' = [pc EXCEPT ![i] = "await_form"]
    /\ UNCHANGED <<config, _memory, last>>

\* What the handler leaves behind: the store, and the observation of the
\* request (what it read, what it called, what it answered).  signature is
\* the header value main.py:56 read, NotRead when that line was not reached.
Finish(i, form, gate, outcome, r) ==
    /\ _memory' = r.memory
    /\ last' = [handled        |-> TRUE,
                form           |-> form,
                signature      |-> gate.signature,
                outcome        |-> outcome,
                response       |-> r.response,
                store_reads    |-> r.store_reads,
                store_writes   |-> r.store_writes,
                remote_calls   |-> r.remote_calls,
                verifier_calls |-> gate.verifier_calls,
                propagated     |-> r.propagated]
    /\ pc' = [pc EXCEPT ![i] = "return"]
    /\ UNCHANGED config

\* A path that ends before the try block: nothing read, written or called.
Early(memory, response) ==
    [memory       |-> memory,
     response     |-> response,
     store_reads  |-> 0,
     store_writes |-> 0,
     remote_calls |-> 0,
     propagated   |-> FALSE]

\* The form is there: the coroutine resumes and runs to its return without
\* another suspension point, main.py:81-137.  The remote model answers, or
\* fails, when the try block calls it.
Resume(i) ==
    /\ LoopIsFree
    /\ pc[i] = "await_form"
    /\ \E form \in Forms, headers \in HeaderValues :
         \E gate \in {Gates(form, headers)} :
            IF gate.returned
            THEN Finish(i, form, gate, NotCalled, Early(_memory, gate.response))
            ELSE \E outcome \in Outcomes :
                    \E r \in {Exchange(_memory, gate.from_number, gate.body, outcome)} :
                        Finish(i, form, gate, outcome, r)

\* The response leaves the handler (the return statements of main.py:93-137)
\* and the coroutine ends.
Return(i) ==
    /\ pc[i] = "return"
    /\ pc' = [pc EXCEPT ![i] = "idle"]
    /\ last' = NoRequest
    /\ UNCHANGED <<config, _memory>>

Next == \E i \in Handlers : Start(i) \/ Resume(i) \/ Return(i)

Spec == Init /\ [][Next]_vars

(***************************************************************************)
(* Vocabulary of the claims.                                               *)
(***************************************************************************)
\* The step is a handler running from its await to its return.
Completes == \E i \in Handlers : pc[i] = "await_form" /\ pc'[i] = "return"

\* A handler is about to receive its request.
Receiving == LoopIsFree /\ \E i \in Handlers : pc[i] = "await_form"

\* Conversation key of a request: its From field, "unknown" when missing.
KeyOf(form) == IF "From" \in DOMAIN form THEN form["From"] ELSE "unknown"

\* Inbound text of a request as sent, empty when the Body field is missing.
TextOf(form) == IF "Body" \in DOMAIN form THEN form["Body"] ELSE <<>>

\* Stored history of key K, empty when K is unseen.
HistoryOf(memory, K) == IF K \in DOMAIN memory THEN memory[K] ELSE <<>>

\* The store holds a history that is not empty.
StoreHoldsHistory == \E K \in DOMAIN _memory : _memory[K] # <<>>

\* Signature verification of the request returns false: the header is absent
\* or empty, the secret is not configured, or the verifier refuses.
VerificationFails(l) ==
    \/ l.signature = ""
    \/ TWILIO_AUTH_TOKEN = ""
    \/ l.signature # GenuineSignature

\* The request was rejected by the signature check.
Rejected(l) == REQUIRE_TWILIO_SIGNATURE /\ VerificationFails(l)

\* The text of the request is empty after stripping, or sensitive.
EmptyText(l) == Strip(TextOf(l.form)) = <<>>
SensitiveText(l) == SENSITIVE_PATTERN_search(Strip(TextOf(l.form)))

\* The remote call was made and returned.
Succeeded(l) == l.remote_calls > 0 /\ ~l.outcome.raised

\* The response is a 200 markup reply.
IsMarkup(resp) ==
    /\ resp.status_code = 200
    /\ resp.media_type = "application/xml"
    /\ Len(resp.content) >= 2
    /\ resp.content[1] = "<Response><Message>"
    /\ resp.content[Len(resp.content)] = "</Message></Response>"

\* The text a markup reply carries.
MessageOf(resp) == SubSeq(resp.content, 2, Len(resp.content) - 1)

\* The response is the fixed 403.
IsForbidden(resp) == resp.status_code = 403 /\ resp.content = <<"Forbidden">>

\* trim(h, n) as section 4.1 of the specification states it.
SpecTrim(h, n) ==
    IF n <= 0 THEN <<>>
    ELSE IF Len(h) <= n THEN h
    ELSE [k \in 1..n |-> h[Len(h) - n + k]]

UserTurn(t) == [role |-> "user", parts |-> <<t>>]
ModelTurn(t) == [role |-> "model", parts |-> <<t>>]

(***************************************************************************)
(* C1.  A request whose remote-model call fails leaves the store entry of  *)
(* its key as it was (absent stays absent, H stays H) and is answered with *)
(* a fixed fallback text in a 200 markup reply.                            *)
(***************************************************************************)
C1_Step(l, before, after) ==
    l.outcome.raised =>
        \A K \in {KeyOf(l.form)} :
            /\ (K \in DOMAIN after) = (K \in DOMAIN before)
            /\ K \in DOMAIN before => after[K] = before[K]
            /\ IsMarkup(l.response)
            /\ MessageOf(l.response) \in {FALLBACK_MESSAGE, CONFIG_ERROR_MESSAGE}

C1_FailedCallLeavesHistory ==
    [][Completes => \A l \in {last'} : C1_Step(l, _memory, _memory')]_vars

\* A timeout for a key whose stored history is not empty.
C1_Witness ==
    /\ last.handled
    /\ last.outcome.raised
    /\ last.outcome.exc.type = "DeadlineExceeded"
    /\ HistoryOf(_memory, KeyOf(last.form)) # <<>>
    /\ MessageOf(last.response) = FALLBACK_MESSAGE

(***************************************************************************)
(* C2 as stated.  Every request whose stripped text matches a sensitive    *)
(* marker is answered with the safety message, makes no remote call and    *)
(* leaves the whole store unchanged.                                       *)
(***************************************************************************)
C2_Safe(l, before, after) ==
    /\ IsMarkup(l.response)
    /\ MessageOf(l.response) = SAFETY_MESSAGE
    /\ l.remote_calls = 0
    /\ after = before

C2_Original ==
    [][Completes => \A l \in {last'} :
          SensitiveText(l) => C2_Safe(l, _memory, _memory')]_vars

(***************************************************************************)
(* C2 amended.  Every request not rejected by the signature check whose    *)
(* stripped text matches a sensitive marker is answered with the safety    *)
(* message, makes no remote call and leaves the whole store unchanged.     *)
(***************************************************************************)
C2_SensitiveTextIsGated ==
    [][Completes => \A l \in {last'} :
          (~Rejected(l) /\ SensitiveText(l)) => C2_Safe(l, _memory, _memory')]_vars

\* A sensitive text arrives while the store holds a history.
C2_Witness ==
    /\ last.handled
    /\ ~Rejected(last)
    /\ SensitiveText(last)
    /\ MessageOf(last.response) = SAFETY_MESSAGE
    /\ StoreHoldsHistory

(***************************************************************************)
(* C3 as stated.  A successful exchange with inbound text t and remote     *)
(* reply r stores trim(H ++ [user t, model r], MAX_HISTORY) under K and    *)
(* returns r; from an empty store, "+1555", "hello" and "hi there" leave   *)
(* [user "hello", model "hi there"].                                       *)
(***************************************************************************)
C3_Stores(l, before, after, t, r) ==
    \A K \in {KeyOf(l.form)} :
        /\ K \in DOMAIN after
        /\ after[K] = SpecTrim(HistoryOf(before, K) \o <<UserTurn(t), ModelTurn(r)>>,
                               MAX_HISTORY)
        /\ IsMarkup(l.response)
        /\ MessageOf(l.response) = r

C3_IsExample(l, before) ==
    /\ before = EmptyDict
    /\ KeyOf(l.form) = "+1555"
    /\ TextOf(l.form) = Hello
    /\ l.outcome.text = HiThere

C3_ExampleStored(after) ==
    /\ "+1555" \in DOMAIN after
    /\ after["+1555"] = <<UserTurn(Hello), ModelTurn(HiThere)>>

C3_Original ==
    [][Completes => \A l \in {last'} :
          Succeeded(l) =>
              /\ C3_Stores(l, _memory, _memory', TextOf(l.form), l.outcome.text)
              /\ C3_IsExample(l, _memory) => C3_ExampleStored(_memory')]_vars

(***************************************************************************)
(* C3 amended.  A successful exchange stores under K exactly               *)
(* trim(H ++ [user t, model r], MAX_HISTORY) and returns r, where t is the *)
(* whitespace-stripped inbound text and r the whitespace-stripped remote   *)
(* reply; from an empty store, "+1555", "hello" and "hi there" leave       *)
(* [user "hello", model "hi there"] when MAX_HISTORY is at least 2.        *)
(***************************************************************************)
C3_ExchangeIsStored ==
    [][Completes => \A l \in {last'} :
          Succeeded(l) =>
              /\ C3_Stores(l, _memory, _memory',
                           Strip(TextOf(l.form)), Strip(l.outcome.text))
              /\ (C3_IsExample(l, _memory) /\ MAX_HISTORY >= 2)
                    => C3_ExampleStored(_memory')]_vars

\* A padded text answered by a padded reply, stored stripped.
C3_Witness ==
    /\ last.handled
    /\ Succeeded(last)
    /\ KeyOf(last.form) = "+1555"
    /\ TextOf(last.form) # Hello
    /\ last.outcome.text # HiThere
    /\ _memory = [K \in {"+1555"} |-> <<UserTurn(Hello), ModelTurn(HiThere)>>]

(***************************************************************************)
(* C4 as stated.  Every stored history has length at most MAX_HISTORY, and *)
(* is empty when MAX_HISTORY is 0.                                         *)
(***************************************************************************)
C4_Original ==
    \A K \in DOMAIN _memory :
        /\ Len(_memory[K]) <= MAX_HISTORY
        /\ MAX_HISTORY = 0 => _memory[K] = <<>>

(***************************************************************************)
(* C4 amended.  Every stored history has length at most MAX_HISTORY when   *)
(* MAX_HISTORY is positive, and is empty when MAX_HISTORY is 0 or          *)
(* negative.                                                               *)
(***************************************************************************)
C4_HistoryIsBounded ==
    \A K \in DOMAIN _memory :
        /\ MAX_HISTORY > 0 => Len(_memory[K]) <= MAX_HISTORY
        /\ MAX_HISTORY <= 0 => _memory[K] = <<>>

\* An exchange of two turns was cut down to the one turn the maximum allows.
C4_Witness ==
    /\ MAX_HISTORY = 1
    /\ last.handled
    /\ Succeeded(last)
    /\ Len(_memory[KeyOf(last.form)]) = 1

(***************************************************************************)
(* C5 as stated.  Every request whose text is empty after stripping (a     *)
(* missing Body included) is answered with the greeting, invokes no remote *)
(* call and neither reads nor writes the store.                            *)
(***************************************************************************)
C5_Greeted(l, before, after) ==
    /\ IsMarkup(l.response)
    /\ MessageOf(l.response) = GREETING_MESSAGE
    /\ l.remote_calls = 0
    /\ l.store_reads = 0
    /\ l.store_writes = 0
    /\ after = before

C5_Original ==
    [][Completes => \A l \in {last'} :
          EmptyText(l) => C5_Greeted(l, _memory, _memory')]_vars

(***************************************************************************)
(* C5 amended.  Every request not rejected by the signature check whose    *)
(* text is empty after stripping (a missing Body included) is answered     *)
(* with the greeting, invokes no remote call and neither reads nor writes  *)
(* the store.                                                              *)
(***************************************************************************)
C5_EmptyTextIsGreeted ==
    [][Completes => \A l \in {last'} :
          (~Rejected(l) /\ EmptyText(l)) => C5_Greeted(l, _memory, _memory')]_vars

\* A request without a Body field arrives while the store holds a history.
C5_Witness ==
    /\ last.handled
    /\ ~Rejected(last)
    /\ "Body" \notin DOMAIN last.form
    /\ MessageOf(last.response) = GREETING_MESSAGE
    /\ StoreHoldsHistory

(***************************************************************************)
(* C6.  With signature verification enabled, a request whose verification  *)
(* returns false is answered with the fixed 403 and nothing else happens:  *)
(* no remote call, no store read or write, the store unchanged, whatever   *)
(* the text is.                                                            *)
(***************************************************************************)
C6_Step(l, before, after) ==
    Rejected(l) =>
        /\ IsForbidden(l.response)
        /\ l.remote_calls = 0
        /\ l.store_reads = 0
        /\ l.store_writes = 0
        /\ after = before

C6_RejectedRequestStops ==
    [][Completes => \A l \in {last'} : C6_Step(l, _memory, _memory')]_vars

\* A forged signature on an ordinary text while the store holds a history.
C6_Witness ==
    /\ last.handled
    /\ REQUIRE_TWILIO_SIGNATURE
    /\ last.signature = ForgedSignature
    /\ Strip(TextOf(last.form)) = Hello
    /\ IsForbidden(last.response)
    /\ StoreHoldsHistory

(***************************************************************************)
(* C7.  Every handled request ends in one response; it is the 403 exactly  *)
(* when verification is enabled and fails, and a 200 markup reply on every *)
(* other path; no exception leaves the handler.                            *)
(***************************************************************************)
C7_OneResponse ==
    last.handled =>
        /\ ~last.propagated
        /\ last.response # NoResponse
        /\ (last.response.status_code = 403) = Rejected(last)
        /\ Rejected(last) => IsForbidden(last.response)
        /\ ~Rejected(last) => IsMarkup(last.response)

\* A remote-call failure answered with a 200 markup reply.
C7_Witness ==
    /\ last.handled
    /\ last.outcome.raised
    /\ last.outcome.exc.type = "NotFound"
    /\ IsMarkup(last.response)

(***************************************************************************)
(* C8.  A request invokes the remote model at most once, exactly once when *)
(* its call fails; it writes the store once, under its own key, when the   *)
(* exchange succeeds, and not at all when it is rejected, gated or its     *)
(* call fails.                                                             *)
(***************************************************************************)
C8_Step(l, before, after) ==
    /\ l.remote_calls <= 1
    /\ l.outcome.raised => l.remote_calls = 1
    /\ Succeeded(l) =>
          /\ l.store_writes = 1
          /\ \A K \in DOMAIN before \cup DOMAIN after :
                K # KeyOf(l.form) => (K \in DOMAIN before /\ K \in DOMAIN after
                                      /\ after[K] = before[K])
    /\ (Rejected(l) \/ EmptyText(l) \/ SensitiveText(l) \/ l.outcome.raised) =>
          /\ l.store_writes = 0
          /\ after = before
    /\ Succeeded(l) \/ Rejected(l) \/ EmptyText(l) \/ SensitiveText(l) \/ l.outcome.raised

C8_OneCallOneWrite ==
    [][Completes => \A l \in {last'} : C8_Step(l, _memory, _memory')]_vars

\* A second successful exchange of a key.
C8_Witness ==
    /\ last.handled
    /\ Succeeded(last)
    /\ last.store_writes = 1
    /\ last.remote_calls = 1
    /\ MAX_HISTORY = 2
    /\ Cardinality(DOMAIN _memory) = 2

(***************************************************************************)
(* C9.  With the signature flag off no request is rejected, whatever its   *)
(* signature header and whether or not a secret is configured: the header  *)
(* is not read, the verifier is not asked, and the request reaches the     *)
(* empty-text check.                                                       *)
(***************************************************************************)
C9_FlagOffSkipsVerification ==
    ~REQUIRE_TWILIO_SIGNATURE =>
        /\ Receiving =>
              \A form \in Forms, headers \in HeaderValues :
                  \A gate \in {Gates(form, headers)} :
                      /\ gate.response # Forbidden
                      /\ gate.signature = NotRead
                      /\ gate.verifier_calls = 0
        /\ last.handled =>
              /\ last.response.status_code # 403
              /\ last.signature = NotRead
              /\ last.verifier_calls = 0
              /\ EmptyText(last) => MessageOf(last.response) = GREETING_MESSAGE

\* Flag off, no secret configured: an empty text is greeted.
C9_Witness ==
    /\ ~REQUIRE_TWILIO_SIGNATURE
    /\ TWILIO_AUTH_TOKEN = ""
    /\ last.handled
    /\ EmptyText(last)
    /\ MessageOf(last.response) = GREETING_MESSAGE

(***************************************************************************)
(* C10.  Signature verification returns false without asking the verifier  *)
(* when the header is absent or empty or the secret is not configured; so  *)
(* with verification enabled and no secret every request is answered 403,  *)
(* whatever its header.                                                    *)
(***************************************************************************)
C10_FailsClosed ==
    /\ Receiving =>
          \A headers \in HeaderValues :
              ("X-Twilio-Signature" \notin DOMAIN headers
                   \/ headers["X-Twilio-Signature"] = ""
                   \/ TWILIO_AUTH_TOKEN = "") =>
                  \A v \in {_validate_twilio_signature(headers)} :
                      ~v.valid /\ v.verifier_calls = 0
    /\ (REQUIRE_TWILIO_SIGNATURE /\ TWILIO_AUTH_TOKEN = "" /\ last.handled) =>
          /\ IsForbidden(last.response)
          /\ last.verifier_calls = 0

\* Verification enabled, no secret: the genuine signature is answered 403.
C10_Witness ==
    /\ REQUIRE_TWILIO_SIGNATURE
    /\ TWILIO_AUTH_TOKEN = ""
    /\ last.handled
    /\ last.signature = GenuineSignature
    /\ IsForbidden(last.response)
    /\ last.verifier_calls = 0

(***************************************************************************)
(* C11 as stated.  A remote reply whose text is empty, or empty after      *)
(* stripping, is handled as a failure of the call: the request writes      *)
(* nothing to the store and is answered with the fixed fallback message,   *)
(* so no stored history ever holds a turn with empty text.                 *)
(***************************************************************************)
EmptyReply(l) == l.remote_calls > 0 /\ ~l.outcome.raised /\ Strip(l.outcome.text) = <<>>

HoldsEmptyTurn(history) == \E k \in 1..Len(history) : history[k].parts[1] = <<>>

C11_Original ==
    /\ \A K \in DOMAIN _memory : ~HoldsEmptyTurn(_memory[K])
    /\ (last.handled /\ EmptyReply(last)) =>
          /\ last.store_writes = 0
          /\ MessageOf(last.response) = FALLBACK_MESSAGE

(***************************************************************************)
(* C12 as stated.  The conversation key is never the empty string,         *)
(* whether the From field is missing or present with any value, an empty   *)
(* one included; no store entry is keyed by the empty string.              *)
(***************************************************************************)
C12_Original ==
    /\ "" \notin DOMAIN _memory
    /\ Receiving =>
          \A form \in Forms, headers \in HeaderValues :
              Gates(form, headers).from_number # ""

(***************************************************************************)
(* _trim_history on its own, main.py:47-51: the function is called with    *)
(* any history of at most MaxLen turns and any maximum, and then again on  *)
(* its own result.  last holds the call: the list passed, the maximum, the *)
(* list returned and the list passed as it is after the call.              *)
(***************************************************************************)
TrimTurns == { Turn("user", Hello), Turn("model", HiThere), Turn("user", <<"?">>) }

TrimHistories == UNION { [1..k -> TrimTurns] : k \in 0..MaxLen }

TrimBounds == -1..(MaxLen + 1)

TrimRecord(origin, history, max_entries, repeated) ==
    [handled     |-> FALSE,
     fn          |-> "_trim_history",
     origin      |-> origin,
     history     |-> history,
     max_entries |-> max_entries,
     result      |-> _trim_history(history, max_entries),
     argument    |-> _trim_history_argument(history, max_entries),
     repeated    |-> repeated]

IsTrimCall(l) == "fn" \in DOMAIN l /\ l.fn = "_trim_history"

TrimInit == Init

TrimCall ==
    /\ ~IsTrimCall(last)
    /\ \E history \in TrimHistories, max_entries \in TrimBounds :
          last' = TrimRecord(history, history, max_entries, FALSE)
    /\ UNCHANGED <<config, _memory, pc>>

TrimRepeat ==
    /\ IsTrimCall(last)
    /\ ~last.repeated
    /\ last' = TrimRecord(last.origin, last.result, last.max_entries, TRUE)
    /\ UNCHANGED <<config, _memory, pc>>

TrimNext == TrimCall \/ TrimRepeat

TrimSpec == TrimInit /\ [][TrimNext]_vars

(***************************************************************************)
(* C13.  For every history h and maximum n: trim(h, n) is empty when       *)
(* n <= 0; when n > 0 it has length min(length(h), n) and is the suffix of *)
(* h of that length, in the order of h, hence h itself when                *)
(* length(h) <= n; and h is not modified.                                  *)
(***************************************************************************)
Min(a, b) == IF a < b THEN a ELSE b

C13_Holds(h, n, r, after) ==
    /\ n <= 0 => r = <<>>
    /\ n > 0 =>
          /\ Len(r) = Min(Len(h), n)
          /\ \A k \in 1..Len(r) : r[k] = h[Len(h) - Len(r) + k]
          /\ Len(h) <= n => r = h
    /\ after = h

C13_TrimIsSuffix ==
    IsTrimCall(last) =>
        C13_Holds(last.history, last.max_entries, last.result, last.argument)

\* Three different turns cut down to the last two.
C13_Witness ==
    /\ IsTrimCall(last)
    /\ ~last.repeated
    /\ last.max_entries = 2
    /\ last.history = <<Turn("user", <<"?">>), Turn("user", Hello), Turn("model", HiThere)>>
    /\ last.result = <<Turn("user", Hello), Turn("model", HiThere)>>

(***************************************************************************)
(* C14.  Trimming is idempotent for a fixed maximum, positive, zero or     *)
(* negative: trimming the result of a trim again returns that result.      *)
(***************************************************************************)
C14_TrimIsIdempotent ==
    [][(IsTrimCall(last) /\ IsTrimCall(last') /\ last'.repeated) =>
          /\ last'.history = last.result
          /\ last'.max_entries = last.max_entries
          /\ last'.result = last.result]_vars

\* A history of three turns trimmed to one, and trimmed again.
C14_Witness ==
    /\ IsTrimCall(last)
    /\ last.repeated
    /\ last.max_entries = 1
    /\ Len(last.origin) = 3
    /\ Len(last.history) = 1
    /\ last.result = last.history

(***************************************************************************)
(* The content guard on its own, main.py:36 and :100: the pattern is       *)
(* searched in any text of at most MaxText symbols of GuardAlphabet (the   *)
(* marker pin in both cases, a word character that is no letter, a blank   *)
(* and a hyphen) and in the texts of GuardExamples.  last holds the call:  *)
(* the text and whether the guard matched.                                 *)
(***************************************************************************)
GuardAlphabet == {"p", "i", "n", "N", "_", " ", "-"}

GuardExamples ==
    { <<"m","y"," ","p","a","s","s","w","o","r","d"," ","i","s"," ","1","2","3","4">>,
      <<"p","a","s","s","w","o","r","d","l","e","s","s">>,
      <<"M","y"," ","P","a","s","s","W","o","r","d","!">>,
      <<"c","v","v">>,
      <<"C","V","V","?">>,
      <<"2","f","a">>,
      <<"x","2","f","a">>,
      <<"e","n","a","b","l","e"," ","2","F","A"," ","n","o","w">>,
      <<"c","o","d","e">>,
      <<"d","e","c","o","d","e">>,
      <<"p","i","n","_","c","o","d","e">>,
      <<"U+043A","U+043E","U+0434">>,
      <<"U+041A","U+043E","U+0434",":"," ","1","2","3","4">>,
      <<"U+043A","U+043E","U+0434","U+043E","U+043A">>,
      <<"U+043F","U+0430","U+0440","U+043E","U+043B","U+044C">>,
      <<"U+041F","U+0410","U+0420","U+041E","U+041B","U+042C">>,
      <<"U+043F","U+0430","U+0440","U+043E","U+043B","U+044C","U+043A","U+0430">>,
      <<"1","2","3","4">>,
      <<"h","e","l","l","o">> }

GuardTexts == UNION { [1..k -> GuardAlphabet] : k \in 0..MaxText } \cup GuardExamples

GuardRecord(text) ==
    [handled |-> FALSE,
     fn      |-> "SENSITIVE_PATTERN.search",
     text    |-> text,
     result  |-> ContentGuard(text)]

IsGuardCall(l) == "fn" \in DOMAIN l /\ l.fn = "SENSITIVE_PATTERN.search"

\* The module as it is loaded when the environment sets none of its variables.
GuardInit ==
    /\ MAX_HISTORY = 10
    /\ REQUIRE_TWILIO_SIGNATURE = FALSE
    /\ TWILIO_AUTH_TOKEN = ""
    /\ GOOGLE_API_KEY = ""
    /\ _memory = EmptyDict
    /\ pc = [i \in Handlers |-> "idle"]
    /\ last = NoRequest

GuardCall ==
    /\ ~IsGuardCall(last)
    /\ \E text \in GuardTexts : last' = GuardRecord(text)
    /\ UNCHANGED <<config, _memory, pc>>

GuardNext == GuardCall

GuardSpec == GuardInit /\ [][GuardNext]_vars

(***************************************************************************)
(* C15.  The content guard matches whole words, ignoring case: it is true  *)
(* of every text in which a marker stands between non-word characters or   *)
(* the ends of the text, and false of every text in which a marker occurs  *)
(* only inside longer words.                                               *)
(***************************************************************************)
\* The symbols i .. i+Len(m)-1 of s spell m, whatever their case.
Spells(s, m, i) ==
    /\ i >= 1
    /\ i + Len(m) - 1 <= Len(s)
    /\ \A j \in 1..Len(m) : ToLower(s[i + j - 1]) = m[j]

\* That occurrence has no word character next to it.
Delimited(s, m, i) ==
    /\ i = 1 \/ s[i - 1] \notin WordChars
    /\ i + Len(m) - 1 = Len(s) \/ s[i + Len(m)] \notin WordChars

MarkerOccurs(s) == \E m \in Markers : \E i \in 1..Len(s) : Spells(s, m, i)

MarkerStandsAlone(s) ==
    \E m \in Markers : \E i \in 1..Len(s) : Spells(s, m, i) /\ Delimited(s, m, i)

C15_GuardMatchesWholeWords ==
    IsGuardCall(last) =>
        /\ MarkerStandsAlone(last.text) => last.result
        /\ (MarkerOccurs(last.text) /\ ~MarkerStandsAlone(last.text)) => ~last.result

\* A marker of mixed case between a hyphen and a blank is found.
C15_Witness ==
    /\ IsGuardCall(last)
    /\ last.text = <<"-", "p", "i", "N", " ">>
    /\ last.result

\* The marker inside a longer word only.
C15_WitnessInside ==
    /\ IsGuardCall(last)
    /\ last.text = <<"p","a","s","s","w","o","r","d","l","e","s","s">>
    /\ ~last.result

(***************************************************************************)
(* The webhook with room in the store for more than one exchange of a key, *)
(* and its scheduling: asyncio resumes every coroutine whose awaited form  *)
(* is there and runs it to its return; requests keep arriving.             *)
(***************************************************************************)
RaceCaps == {MaxCap + 1, MaxCap + 2}

\* Signature verification is off, as by default; the model key is configured.
RaceInit ==
    /\ MAX_HISTORY \in RaceCaps
    /\ REQUIRE_TWILIO_SIGNATURE = FALSE
    /\ TWILIO_AUTH_TOKEN = ""
    /\ GOOGLE_API_KEY = "google-key"
    /\ _memory = EmptyDict
    /\ pc = [i \in Handlers |-> "idle"]
    /\ last = NoRequest

RaceFairness ==
    \A i \in Handlers :
        /\ WF_vars(Start(i))
        /\ WF_vars(Resume(i))
        /\ WF_vars(Return(i))

RaceSpec == RaceInit /\ [][Next]_vars /\ RaceFairness

\* The step is a successful exchange whose write-back is not the history
\* stored under its key just before it, extended by the exchange and
\* trimmed: what an earlier request wrote is lost.
C16_LostUpdate ==
    /\ Completes
    /\ \E l \in {last'} :
          /\ Succeeded(l)
          /\ \E K \in {KeyOf(l.form)} :
                _memory'[K] # SpecTrim(HistoryOf(_memory, K)
                                          \o <<UserTurn(Strip(TextOf(l.form))),
                                               ModelTurn(Strip(l.outcome.text))>>,
                                       MAX_HISTORY)

(***************************************************************************)
(* C16 as stated.  Requests for the same key race on the read-modify-write *)
(* of its history: a state is reached in which a request can write back a  *)
(* history read before another request for the key wrote, so that a        *)
(* successful exchange is lost from the stored history.                    *)
(***************************************************************************)
C16_Original == <>(ENABLED <<Next /\ C16_LostUpdate>>_vars)

(***************************************************************************)
(* C16 amended.  Requests for the same key that are in flight together do  *)
(* not race on its history: a request reads the stored history and writes  *)
(* it back without suspending in between, so every successful exchange     *)
(* extends the history stored just before its write, and none is lost      *)
(* other than by trimming to MAX_HISTORY.                                  *)
(***************************************************************************)
C16_ReadAndWriteAreAtomic == [][~C16_LostUpdate]_vars

\* The second of two successful exchanges of a key is written while another
\* request is in flight; the store holds both exchanges.
C16_Witness ==
    /\ last.handled
    /\ Succeeded(last)
    /\ KeyOf(last.form) = "+1555"
    /\ \E i, j \in Handlers : pc[i] = "return" /\ pc[j] = "await_form"
    /\ Len(_memory["+1555"]) = 4
    /\ _memory["+1555"][2] # _memory["+1555"][4]

(***************************************************************************)
(* C17.  A request for key K, whatever its outcome and however it is       *)
(* interleaved with other requests, neither creates, changes nor removes   *)
(* the store entry of another key; a step that completes no request        *)
(* leaves the whole store as it is.                                        *)
(***************************************************************************)
SameEntry(before, after, K) ==
    /\ (K \in DOMAIN before) = (K \in DOMAIN after)
    /\ K \in DOMAIN before => after[K] = before[K]

C17_OtherKeysAreUntouched ==
    [][IF Completes
       THEN \A K \in {KeyOf(last'.form)} :
               \A other \in (DOMAIN _memory \cup DOMAIN _memory') \ {K} :
                   SameEntry(_memory, _memory', other)
       ELSE _memory' = _memory]_vars

\* An exchange of "+1555" succeeds while the store holds a different history
\* for the sender without a From field and another request is in flight.
C17_Witness ==
    /\ last.handled
    /\ Succeeded(last)
    /\ KeyOf(last.form) = "+1555"
    /\ "unknown" \in DOMAIN _memory
    /\ _memory["unknown"] # <<>>
    /\ _memory["unknown"] # _memory["+1555"]
    /\ \E j \in Handlers : pc[j] = "await_form"

(***************************************************************************)
(* C18.  The store has an entry for K exactly when an exchange of K has    *)
(* succeeded: the store starts empty, an entry appears only in the step of *)
(* a successful exchange of its key, every successful exchange leaves an   *)
(* entry for its key, and no step removes an entry.                        *)
(***************************************************************************)
SucceedsFor(K) ==
    /\ Completes
    /\ \A l \in {last'} : Succeeded(l) /\ KeyOf(l.form) = K

C18_Step ==
    \A K \in DOMAIN _memory \cup DOMAIN _memory' \cup {KeyOf(last'.form)} :
        /\ K \in DOMAIN _memory => K \in DOMAIN _memory'
        /\ (K \notin DOMAIN _memory /\ K \in DOMAIN _memory') => SucceedsFor(K)
        /\ SucceedsFor(K) => K \in DOMAIN _memory'

C18_EntryLifecycle == (DOMAIN _memory = {}) /\ [][C18_Step]_vars

\* A failed call for a key without an entry leaves it without one, while
\* the entry of another key stays.
C18_Witness ==
    /\ last.handled
    /\ last.outcome.raised
    /\ KeyOf(last.form) \notin DOMAIN _memory
    /\ DOMAIN _memory # {}

(***************************************************************************)
(* C19.  In every step each key's history changes only by turns appended   *)
(* at its end (the two turns of the exchange that succeeds in the step)    *)
(* and turns evicted from its front: the new history is a suffix of the    *)
(* old one extended by the appended turns, so surviving turns keep their   *)
(* content and order and none is taken from the middle or the end.         *)
(***************************************************************************)
IsSuffix(a, b) ==
    /\ Len(a) <= Len(b)
    /\ \A k \in 1..Len(a) : a[k] = b[Len(b) - Len(a) + k]

AppendedIn(K) ==
    IF SucceedsFor(K)
    THEN <<UserTurn(Strip(TextOf(last'.form))), ModelTurn(Strip(last'.outcome.text))>>
    ELSE <<>>

C19_AppendAndEvictOnly ==
    [][\A K \in DOMAIN _memory \cup DOMAIN _memory' :
          /\ K \in DOMAIN _memory'
          /\ \A new \in {_memory'[K]} :
                IsSuffix(new, HistoryOf(_memory, K) \o AppendedIn(K))]_vars

\* With room for three turns, the second exchange of a key has evicted the
\* question of the first and kept its answer in front of the new turns.
C19_Witness ==
    /\ MAX_HISTORY = 3
    /\ last.handled
    /\ Succeeded(last)
    /\ \E K \in {KeyOf(last.form)} :
          /\ Len(_memory[K]) = 3
          /\ _memory[K][1].role = "model"
          /\ _memory[K][1] # _memory[K][3]

(***************************************************************************)
(* C20 as stated.  Whatever MAX_HISTORY is, every stored history that is   *)
(* not empty is made of complete exchanges: it starts with a user turn,    *)
(* alternates user and model turns and ends with a model turn, so its      *)
(* length is even.                                                         *)
(***************************************************************************)
CompleteExchanges(history) ==
    /\ Len(history) % 2 = 0
    /\ \A k \in 1..Len(history) :
          history[k].role = IF k % 2 = 1 THEN "user" ELSE "model"

C20_Original == \A K \in DOMAIN _memory : CompleteExchanges(_memory[K])

====
